---------------------------- MODULE Spec2Model ----------------------------
(***************************************************************************)
(* Model of the football-prediction backend: the cache-or-fetch pipeline   *)
(* of PredictionsService (getPredictionsForDate, getAllPredictionsForDate, *)
(* cacheApiPredictions) over the Prediction collection, and the upstream   *)
(* source FootballApiService (getPredictions, getBetminerPredictions,      *)
(* transformBetminerData, getMockPredictions).                             *)
(*                                                                         *)
(* Conventions.                                                            *)
(*  - Time is in milliseconds, as Date.now() gives it.                     *)
(*  - A string is a TLA+ string, "" standing for the empty string and for  *)
(*    undefined; where the code looks at its characters the model does so  *)
(*    on Chars(s), a sequence of one-character strings.                    *)
(*  - A decimal number is an integer count of hundredths (1.80 is 180).    *)
(*    Percentages are plain integers.                                      *)
(*  - An optional value (undefined / null in the code) is <<>> when        *)
(*    absent and <<v>> when present.                                       *)
(***************************************************************************)
EXTENDS Integers, Sequences, FiniteSets, TLC

(***************************************************************************)
(* Bounds of the model.                                                    *)
(***************************************************************************)
\* number of queries in one behaviour
MaxQueries == 2
\* number of times the clock advances between two steps in one behaviour
MaxTicks == 1
\* number of store operations that fail for a reason outside the program
MaxFaults == 1
\* the largest of the consecutive odds values of the provider, in hundredths
MaxOdds == 250
\* the longest list of records the statistics are computed on, the sample
\* set aside
MaxStatsLen == 3

(***************************************************************************)
(* Program constants.                                                      *)
(***************************************************************************)
\* 2 * 60 * 60 * 1000: the cache window of the lookup
CacheTtlMs == 7200000
\* the home-win threshold of the filtered endpoint
HomeWinThreshold == 50
\* @Prop({ min: 0, max: 100 }) of the three chance fields
SchemaMinChance == 0
SchemaMaxChance == 100

OneMinuteMs == 60 * 1000
\* the amounts by which the clock advances between two steps
TickSteps == {119 * OneMinuteMs, 120 * OneMinuteMs, 121 * OneMinuteMs}

\* the queries of a behaviour, numbered in the order in which they start
Queries == 1..MaxQueries
Dates == {"2025-08-12", "2025-08-13"}
\* date parameters the controller is to turn away: none, a month and a day
\* that do not exist, a day the month does not have, another notation
BadDates == {"", "2025-13-40", "2025-02-30", "12-08-2025"}
\* the two dates are interchangeable: the first query asks for the first
FirstDate == "2025-08-12"
QueryDates(i) == (IF i = 1 THEN {FirstDate} ELSE Dates) \cup BadDates
\* the offsets of the server's time zone from UTC, in minutes
UtcOffsets == {0, -300}
Modes == {"threshold", "all"}

(***************************************************************************)
(* Strings.  A string of the program is a TLA+ string; Chars gives its     *)
(* characters, and Str the string of a character sequence.  The e with an  *)
(* acute accent of 'América W' is the one character "e-acute", and the     *)
(* TLA+ string that stands for that name is written without the accent.    *)
(***************************************************************************)
KnownStrings ==
  { "", "Real Soacha", "Deportes Tolima", "Deportivo Cali", "Union Magdalena",
    "America W", "Puebla W", "Toluca W", "Guadalajara W",
    "Santa Fe", "Millonarios", "Manchester City", "Leeds",
    "Ajax", "Unknown Home", "Unknown Away", "CIty",
    "00:00", "00:30", "01:00", "01:30",
    "15:00:00", "15:00",
    "2025-08-12", "2025-08-13", "2025-13-40", "2025-02-30", "12-08-2025" }

Chars(s) ==
  CASE s = "" -> <<>>
    [] s = "Real Soacha" -> <<"R", "e", "a", "l", " ", "S", "o", "a", "c", "h", "a">>
    [] s = "Deportes Tolima" -> <<"D", "e", "p", "o", "r", "t", "e", "s", " ", "T", "o", "l", "i", "m", "a">>
    [] s = "Deportivo Cali" -> <<"D", "e", "p", "o", "r", "t", "i", "v", "o", " ", "C", "a", "l", "i">>
    [] s = "Union Magdalena" -> <<"U", "n", "i", "o", "n", " ", "M", "a", "g", "d", "a", "l", "e", "n", "a">>
    [] s = "America W" -> <<"A", "m", "e-acute", "r", "i", "c", "a", " ", "W">>
    [] s = "Puebla W" -> <<"P", "u", "e", "b", "l", "a", " ", "W">>
    [] s = "Toluca W" -> <<"T", "o", "l", "u", "c", "a", " ", "W">>
    [] s = "Guadalajara W" -> <<"G", "u", "a", "d", "a", "l", "a", "j", "a", "r", "a", " ", "W">>
    [] s = "Santa Fe" -> <<"S", "a", "n", "t", "a", " ", "F", "e">>
    [] s = "Millonarios" -> <<"M", "i", "l", "l", "o", "n", "a", "r", "i", "o", "s">>
    [] s = "Manchester City" -> <<"M", "a", "n", "c", "h", "e", "s", "t", "e", "r", " ", "C", "i", "t", "y">>
    [] s = "Leeds" -> <<"L", "e", "e", "d", "s">>
    [] s = "Ajax" -> <<"A", "j", "a", "x">>
    [] s = "Unknown Home" -> <<"U", "n", "k", "n", "o", "w", "n", " ", "H", "o", "m", "e">>
    [] s = "Unknown Away" -> <<"U", "n", "k", "n", "o", "w", "n", " ", "A", "w", "a", "y">>
    [] s = "CIty" -> <<"C", "I", "t", "y">>
    [] s = "00:00" -> <<"0", "0", ":", "0", "0">>
    [] s = "00:30" -> <<"0", "0", ":", "3", "0">>
    [] s = "01:00" -> <<"0", "1", ":", "0", "0">>
    [] s = "01:30" -> <<"0", "1", ":", "3", "0">>
    [] s = "15:00:00" -> <<"1", "5", ":", "0", "0", ":", "0", "0">>
    [] s = "15:00" -> <<"1", "5", ":", "0", "0">>
    [] s = "2025-08-12" -> <<"2", "0", "2", "5", "-", "0", "8", "-", "1", "2">>
    [] s = "2025-08-13" -> <<"2", "0", "2", "5", "-", "0", "8", "-", "1", "3">>
    [] s = "2025-13-40" -> <<"2", "0", "2", "5", "-", "1", "3", "-", "4", "0">>
    [] s = "2025-02-30" -> <<"2", "0", "2", "5", "-", "0", "2", "-", "3", "0">>
    [] s = "12-08-2025" -> <<"1", "2", "-", "0", "8", "-", "2", "0", "2", "5">>

Str(chars) == CHOOSE s \in KnownStrings : Chars(s) = chars

\* the teamFilter values of the requests; "" is "no filter given"
NoFilter == ""
FilterCity == "CIty"
TeamFilters == {NoFilter, FilterCity}

\* String.prototype.toLowerCase on one character
LowerChar(c) ==
  CASE c = "A" -> "a" [] c = "B" -> "b" [] c = "C" -> "c" [] c = "D" -> "d"
    [] c = "E" -> "e" [] c = "F" -> "f" [] c = "G" -> "g" [] c = "H" -> "h"
    [] c = "I" -> "i" [] c = "J" -> "j" [] c = "K" -> "k" [] c = "L" -> "l"
    [] c = "M" -> "m" [] c = "N" -> "n" [] c = "O" -> "o" [] c = "P" -> "p"
    [] c = "Q" -> "q" [] c = "R" -> "r" [] c = "S" -> "s" [] c = "T" -> "t"
    [] c = "U" -> "u" [] c = "V" -> "v" [] c = "W" -> "w" [] c = "X" -> "x"
    [] c = "Y" -> "y" [] c = "Z" -> "z" [] OTHER -> c

\* String.prototype.toLowerCase, as characters
toLowerCase(s) ==
  LET chars == Chars(s) IN [i \in 1..Len(chars) |-> LowerChar(chars[i])]

\* String.prototype.includes, on characters
includes(s, t) ==
  \E i \in 0..(Len(s) - Len(t)) : SubSeq(s, i + 1, i + Len(t)) = t

\* String.prototype.substring(0, n)
substring0(s, n) ==
  LET chars == Chars(s)
  IN  Str(SubSeq(chars, 1, IF Len(chars) < n THEN Len(chars) ELSE n))

(***************************************************************************)
(* Numbers.                                                                *)
(***************************************************************************)
\* the rational n / d cut off at the point
TruncDiv(n, d) == n \div d

\* Math.round of the rational n / d (d > 0): the nearest integer, a half
\* going up
RoundDiv(n, d) == (2 * n + d) \div (2 * d)

\* A string handed to parseFloat: [kind |-> "num", v |-> hundredths] when it
\* starts with a decimal number, [kind |-> "text"] when it is non-empty and
\* does not, [kind |-> "absent"] when it is undefined or empty.
NumStr(v) == [kind |-> "num", v |-> v]
TextStr == [kind |-> "text", v |-> 0]
AbsentStr == [kind |-> "absent", v |-> 0]

\* parseFloat: <<>> stands for NaN
parseFloat(s) == IF s.kind = "num" THEN <<s.v>> ELSE <<>>

\* a || b on optional numbers: null, NaN and 0 are falsy
OrElse(a, b) == IF a # <<>> /\ a[1] # 0 THEN a ELSE b

\* (x || 0) on an optional number
OrZero(a) == IF a # <<>> THEN a[1] ELSE 0

(***************************************************************************)
(* PredictionsController: the check of the date parameter.                 *)
(***************************************************************************)
Digits == {"0", "1", "2", "3", "4", "5", "6", "7", "8", "9"}

DigitValue(c) ==
  CASE c = "0" -> 0 [] c = "1" -> 1 [] c = "2" -> 2 [] c = "3" -> 3
    [] c = "4" -> 4 [] c = "5" -> 5 [] c = "6" -> 6 [] c = "7" -> 7
    [] c = "8" -> 8 [] c = "9" -> 9

\* Number(...) of a string of digits
RECURSIVE Number(_)
Number(chars) ==
  IF chars = <<>> THEN 0
  ELSE 10 * Number(SubSeq(chars, 1, Len(chars) - 1)) + DigitValue(chars[Len(chars)])

\* /^\d{4}-\d{2}-\d{2}$/.test(date)
dateRegexTest(chars) ==
  /\ Len(chars) = 10
  /\ chars[5] = "-" /\ chars[8] = "-"
  /\ \A k \in {1, 2, 3, 4, 6, 7, 9, 10} : chars[k] \in Digits

IsLeapYear(year) == year % 4 = 0 /\ (year % 100 # 0 \/ year % 400 = 0)

DaysInMonth(year, month) ==
  IF month = 2 THEN (IF IsLeapYear(year) THEN 29 ELSE 28)
  ELSE IF month \in {4, 6, 9, 11} THEN 30 ELSE 31

Ymd(year, month, day) == [year |-> year, month |-> month, day |-> day]

\* new Date('YYYY-MM-DD'): midnight UTC of that day; an invalid date (<<>>)
\* for a month outside 1..12 or a day outside 1..31; a day the month does
\* not have runs over into the next month
ParseDate(year, month, day) ==
  IF month < 1 \/ month > 12 \/ day < 1 \/ day > 31 THEN <<>>
  ELSE IF day <= DaysInMonth(year, month) THEN <<Ymd(year, month, day)>>
  ELSE IF month = 12 THEN <<Ymd(year + 1, 1, day - 31)>>
  ELSE <<Ymd(year, month + 1, day - DaysInMonth(year, month))>>

\* the day before
PreviousDay(d) ==
  IF d.day > 1 THEN Ymd(d.year, d.month, d.day - 1)
  ELSE IF d.month > 1 THEN Ymd(d.year, d.month - 1, DaysInMonth(d.year, d.month - 1))
  ELSE Ymd(d.year - 1, 12, 31)

\* getFullYear / getMonth + 1 / getDate of midnight UTC of day d, in a zone
\* offset minutes from UTC (less than a day either way)
LocalDate(d, offset) == IF offset < 0 THEN PreviousDay(d) ELSE d

\* a date check that stops at the pattern
IsWellFormedDateIn(date, offset) == dateRegexTest(Chars(date))

\* isValidDateFormat in a zone offset minutes from UTC
IsValidDateIn(date, offset) ==
  LET chars == Chars(date)
  IN  /\ dateRegexTest(chars)
      /\ LET year == Number(SubSeq(chars, 1, 4))
             month == Number(SubSeq(chars, 6, 7))
             day == Number(SubSeq(chars, 9, 10))
             parsedDate == ParseDate(year, month, day)
         IN  /\ parsedDate # <<>>
             /\ LocalDate(parsedDate[1], offset) = Ymd(year, month, day)

\* new HttpException(message, status), and any other thrown error
HttpException(message, status) ==
  [http |-> TRUE, status |-> status, message |-> message]
OtherError(message) == [http |-> FALSE, status |-> 0, message |-> message]
NoError == [http |-> FALSE, status |-> 200, message |-> ""]

\* a catch block that rethrows whatever it caught
ControllerCatchRethrows(mode, error) == error

\* the catch blocks of getPredictions ("threshold") and getAllPredictions
\* ("all"): what the handler throws for a caught error
ControllerCatch(mode, error) ==
  IF error.http THEN error
  ELSE HttpException(IF mode = "threshold" THEN "Failed to retrieve predictions"
                     ELSE "Failed to retrieve all predictions", 500)

(***************************************************************************)
(* FootballApiService: normalization of the upstream matches.              *)
(***************************************************************************)
\* calculateWinChanceFromOdds: null (<<>>) for NaN or odds <= 0, otherwise
\* Math.round((1 / odds) * 100), i.e. 10000 / hundredths rounded
calculateWinChanceFromOdds(oddsString) ==
  LET odds == parseFloat(oddsString)
  IN  IF odds = <<>> \/ odds[1] <= 0 THEN <<>>
      ELSE <<RoundDiv(10000, odds[1])>>

\* parseConfidence: null for an undefined or empty string and for NaN,
\* otherwise Math.round(confidence)
parseConfidence(confidenceString) ==
  IF confidenceString.kind = "absent" THEN <<>>
  ELSE LET confidence == parseFloat(confidenceString)
       IN  IF confidence = <<>> THEN <<>> ELSE <<RoundDiv(confidence[1], 100)>>

\* calculateWinChanceFromOdds(o) || parseConfidence(c) || 0
WinChance(oddsString, confidenceString) ==
  OrZero(OrElse(calculateWinChanceFromOdds(oddsString),
                parseConfidence(confidenceString)))

\* extractTimeFromDate on "day rest[1] rest[2] ...": the first five
\* characters of the second part, '00:00' when there is none
extractTimeFromDate(dateString) ==
  IF dateString # <<>> /\ Len(dateString[1].rest) >= 1
    THEN substring0(dateString[1].rest[1], 5)
    ELSE "00:00"

\* whether the map callback of transformBetminerData throws a TypeError on
\* this match: match.odds is undefined, match.details.date is undefined, or
\* match.predictions_conf is undefined and read because an odds value gave
\* no truthy percentage
ConfidenceRead(match) ==
  \E o \in {match.odds[1].home_win_odds, match.odds[1].away_win_odds,
            match.odds[1].draw_odds} :
    OrElse(calculateWinChanceFromOdds(o), <<>>) = <<>>

TransformThrows(match) ==
  \/ match.odds = <<>>
  \/ match.details.date = <<>>
  \/ match.predictions_conf = <<>> /\ ConfidenceRead(match)

NoConfidence == [HOME_WIN |-> AbsentStr, AWAY_WIN |-> AbsentStr, DRAW |-> AbsentStr]

\* the object the map callback of transformBetminerData returns
TransformMatch(match) ==
  LET odds == match.odds[1]
      conf == IF match.predictions_conf = <<>> THEN NoConfidence
              ELSE match.predictions_conf[1]
  IN  [ homeTeam |-> match.details.homeTeam,
        awayTeam |-> match.details.awayTeam,
        homeWinChance |-> WinChance(odds.home_win_odds, conf.HOME_WIN),
        awayWinChance |-> WinChance(odds.away_win_odds, conf.AWAY_WIN),
        drawChance |-> WinChance(odds.draw_odds, conf.DRAW),
        matchTime |-> extractTimeFromDate(match.details.date),
        competition |-> IF match.details.competition_full # ""
                          THEN match.details.competition_full
                          ELSE match.details.competition,
        date |-> match.details.date[1].day,
        country |-> match.details.country,
        homeWinOdds |-> OrElse(parseFloat(odds.home_win_odds), <<>>),
        awayWinOdds |-> OrElse(parseFloat(odds.away_win_odds), <<>>),
        drawOdds |-> OrElse(parseFloat(odds.draw_odds), <<>>) ]

\* a filter callback that keeps every normalized match
KeepsEveryPrediction(prediction) == TRUE

\* the filter callback of transformBetminerData
IsValidPrediction(prediction) ==
  /\ prediction.homeTeam # ""
  /\ prediction.awayTeam # ""
  /\ prediction.homeWinChance > 0

\* transformBetminerData, for matches on which the callback does not throw
transformBetminerData(betminerMatches) ==
  SelectSeq([i \in 1..Len(betminerMatches) |-> TransformMatch(betminerMatches[i])],
            IsValidPrediction)

\* a sample record that keeps the day the sample was written for
MockPredictionOfOneDay(home, away, hw, aw, dr, time, comp, date, country, ho, ao, dro) ==
  [ homeTeam |-> home, awayTeam |-> away, homeWinChance |-> hw,
    awayWinChance |-> aw, drawChance |-> dr, matchTime |-> time,
    competition |-> comp, date |-> "2025-08-12", country |-> country,
    homeWinOdds |-> <<ho>>, awayWinOdds |-> <<ao>>, drawOdds |-> <<dro>> ]

MockPrediction(home, away, hw, aw, dr, time, comp, date, country, ho, ao, dro) ==
  [ homeTeam |-> home, awayTeam |-> away, homeWinChance |-> hw,
    awayWinChance |-> aw, drawChance |-> dr, matchTime |-> time,
    competition |-> comp, date |-> date, country |-> country,
    homeWinOdds |-> <<ho>>, awayWinOdds |-> <<ao>>, drawOdds |-> <<dro>> ]

\* getMockPredictions: the fixed sample set, carrying the requested date
getMockPredictions(date) ==
  << MockPrediction("Real Soacha", "Deportes Tolima", 21, 62, 26, "00:00",
                    "Colombia Copa Colombia", date, "Colombia", 475, 160, 390),
     MockPrediction("Deportivo Cali", "Union Magdalena", 56, 18, 32, "00:30",
                    "Colombia Primera A", date, "Colombia", 180, 550, 310),
     MockPrediction("America W", "Puebla W", 99, 1, 3, "01:00",
                    "Mexico Liga MX Femenil", date, "Mexico", 101, 6700, 2900),
     MockPrediction("Toluca W", "Guadalajara W", 40, 38, 31, "01:00",
                    "Mexico Liga MX Femenil", date, "Mexico", 250, 260, 325),
     MockPrediction("Santa Fe", "Millonarios", 36, 36, 34, "01:30",
                    "Colombia Primera A", date, "Colombia", 280, 275, 290) >>

\* a getBetminerPredictions without the fallback: nothing is returned when
\* the request or the normalization fails
getBetminerPredictionsNoFallback(response, date) ==
  IF response.kind # "array" THEN <<>>
  ELSE IF \E i \in 1..Len(response.data) : TransformThrows(response.data[i])
    THEN <<>>
  ELSE transformBetminerData(response.data)

\* a getBetminerPredictions that leaves out the matches on which the
\* callback throws and returns the others
getBetminerPredictionsPerRecord(response, date) ==
  IF response.kind # "array" THEN getMockPredictions(date)
  ELSE transformBetminerData(
         SelectSeq(response.data, LAMBDA match : ~TransformThrows(match)))

\* getBetminerPredictions on the outcome of the HTTP request: a request that
\* errors or times out, and a callback that throws, end in the catch block;
\* a response without data or whose data is no array ends in the format
\* check; both return the sample set
getBetminerPredictions(response, date) ==
  IF response.kind \in {"error", "timeout"} THEN getMockPredictions(date)
  ELSE IF response.kind \in {"nodata", "notarray"} THEN getMockPredictions(date)
  ELSE IF \E i \in 1..Len(response.data) : TransformThrows(response.data[i])
    THEN getMockPredictions(date)
  ELSE transformBetminerData(response.data)

(***************************************************************************)
(* The upstream provider: the responses it may give for a date.            *)
(***************************************************************************)
RawMatch(home, away, day, homeOdds, awayOdds, drawOdds) ==
  [ details |-> [ homeTeam |-> home, awayTeam |-> away,
                  date |-> << [day |-> day, rest |-> <<"15:00:00">>] >>,
                  competition_full |-> "Premier League",
                  competition |-> "EPL", country |-> "England" ],
    odds |-> << [ home_win_odds |-> homeOdds, away_win_odds |-> awayOdds,
                  draw_odds |-> drawOdds ] >>,
    predictions_conf |-> <<>> ]

\* home odds 1.54: 65 percent
MatchCity(day) == RawMatch("Manchester City", "Leeds", day, NumStr(154), NumStr(600), NumStr(420))
\* home odds 2.00: exactly 50 percent
MatchEven(day) == RawMatch("Ajax", "Manchester City", day, NumStr(200), NumStr(350), NumStr(340))
\* home odds 0.50: 200 percent
MatchOver(day) == RawMatch("Leeds", "Ajax", day, NumStr(50), NumStr(900), NumStr(500))
\* a match the provider dates on another day than the one asked for
MatchStray == RawMatch("Leeds", "Manchester City", "2025-08-11", NumStr(125), NumStr(800), NumStr(600))
\* a match without an odds object
MatchNoOdds(day) == [MatchCity(day) EXCEPT !.odds = <<>>]

\* a match without a home team name
MatchNameless(day) == RawMatch("", "Leeds", day, NumStr(154), NumStr(600), NumStr(420))
\* a match whose home odds are no number and whose home confidence is
\* missing: 0 percent
MatchNoChance(day) ==
  [ RawMatch("Leeds", "Ajax", day, TextStr, NumStr(600), NumStr(420))
      EXCEPT !.predictions_conf =
        << [HOME_WIN |-> AbsentStr, AWAY_WIN |-> NumStr(2000), DRAW |-> NumStr(2500)] >> ]
\* home odds 1.25: 80 percent, neither team named City
MatchLeeds(day) == RawMatch("Leeds", "Ajax", day, NumStr(125), NumStr(800), NumStr(600))
\* an array of three matches normalization keeps and two it drops
PayloadMixed(day) ==
  << MatchCity(day), MatchNameless(day), MatchEven(day), MatchNoChance(day),
     MatchLeeds(day) >>

\* home odds 1.25: 80 percent, a pairing no other payload has
MatchLone(day) == RawMatch("Ajax", "Leeds", day, NumStr(125), NumStr(800), NumStr(600))
\* a match without a date string
MatchNoDate(day) == [MatchEven(day) EXCEPT !.details.date = <<>>]

Response(kind, data) == [kind |-> kind, data |-> data]

\* the request fails (a network error or a non-2xx status), times out, or
\* answers without data, with data that is no array, or with an array
Responses(date) ==
  { Response("error", <<>>), Response("timeout", <<>>),
    Response("nodata", <<>>), Response("notarray", <<>>),
    Response("array", <<>>),
    Response("array", PayloadMixed(date)),
    Response("array", <<MatchOver(date)>>),
    Response("array", <<MatchStray>>),
    Response("array", <<MatchCity(date), MatchNoOdds(date)>>),
    Response("array", <<MatchLone(date), MatchNoDate(date)>>),
    Response("array", <<MatchNoOdds(date), MatchLone(date)>>) }

\* odds and confidence strings of the provider: missing, not a number, zero,
\* negative, below 1.00, and ordinary values
\* 0.01 to MaxOdds hundredths, and 8.00, 40.00, 200.00, 200.01, 300.00
OddsStrings ==
  { AbsentStr, TextStr, NumStr(0), NumStr(-200) } \cup
  { NumStr(v) : v \in (1..MaxOdds) \cup {800, 4000, 20000, 20001, 30000} }
ConfStrings ==
  { AbsentStr, TextStr, NumStr(0), NumStr(-500), NumStr(5000), NumStr(6550),
    NumStr(15000) }

\* a match with a predictions_conf object, at 65 percent for the home team
MatchWith(day, drawOdds, drawConf) ==
  [ RawMatch("Manchester City", "Leeds", day, NumStr(154), NumStr(600), drawOdds)
      EXCEPT !.predictions_conf =
        << [HOME_WIN |-> NumStr(6000), AWAY_WIN |-> NumStr(2000), DRAW |-> drawConf] >> ]

\* the responses the upstream calls are checked on
UpstreamResponses(date) ==
  Responses(date) \cup
  { Response("array", <<MatchWith(date, drawOdds, drawConf)>>) :
      drawOdds \in OddsStrings, drawConf \in ConfStrings }

(***************************************************************************)
(* PredictionsService: the pure parts.                                     *)
(***************************************************************************)
\* the document cacheApiPredictions builds from one fetched prediction; gen
\* is not a field of the program: it names the cacheApiPredictions call that
\* built the document
BuildDoc(prediction, date, cachedAt, gen) ==
  [ date |-> date,
    homeTeam |-> IF prediction.homeTeam # "" THEN prediction.homeTeam ELSE "Unknown Home",
    awayTeam |-> IF prediction.awayTeam # "" THEN prediction.awayTeam ELSE "Unknown Away",
    homeWinChance |-> prediction.homeWinChance,
    awayWinChance |-> prediction.awayWinChance,
    drawChance |-> prediction.drawChance,
    matchTime |-> IF prediction.matchTime # "" THEN prediction.matchTime ELSE "00:00",
    competition |-> IF prediction.competition # "" THEN prediction.competition
                    ELSE "Unknown League",
    country |-> prediction.country,
    homeWinOdds |-> prediction.homeWinOdds,
    awayWinOdds |-> prediction.awayWinOdds,
    drawOdds |-> prediction.drawOdds,
    apiSource |-> "betminer",
    cachedAt |-> cachedAt,
    gen |-> gen ]

\* predictions.map(...) of cacheApiPredictions: every document reads the
\* clock for itself (new Date()); the clock shows `now` for the first
\* `before` documents and one millisecond more for the others
BuildDocs(predictions, date, now, before, gen) ==
  [i \in 1..Len(predictions) |->
     BuildDoc(predictions[i], date, IF i <= before THEN now ELSE now + 1, gen)]

\* transformApiToDto on one fetched prediction
ApiToDto(prediction) ==
  [ homeTeam |-> IF prediction.homeTeam # "" THEN prediction.homeTeam ELSE "Unknown Home",
    awayTeam |-> IF prediction.awayTeam # "" THEN prediction.awayTeam ELSE "Unknown Away",
    homeWinChance |-> prediction.homeWinChance,
    awayWinChance |-> prediction.awayWinChance,
    drawChance |-> prediction.drawChance,
    matchTime |-> IF prediction.matchTime # "" THEN prediction.matchTime ELSE "00:00",
    competition |-> IF prediction.competition # "" THEN prediction.competition
                    ELSE "Unknown League",
    date |-> prediction.date,
    country |-> prediction.country,
    homeWinOdds |-> prediction.homeWinOdds,
    awayWinOdds |-> prediction.awayWinOdds,
    drawOdds |-> prediction.drawOdds ]

transformApiToDto(apiPredictions) ==
  [i \in 1..Len(apiPredictions) |-> ApiToDto(apiPredictions[i])]

\* the response object the cache-hit paths build from a stored document
DocToDto(p) ==
  [ homeTeam |-> p.homeTeam, awayTeam |-> p.awayTeam,
    homeWinChance |-> p.homeWinChance, awayWinChance |-> p.awayWinChance,
    drawChance |-> p.drawChance, matchTime |-> p.matchTime,
    competition |-> p.competition, date |-> p.date, country |-> p.country,
    homeWinOdds |-> p.homeWinOdds, awayWinOdds |-> p.awayWinOdds,
    drawOdds |-> p.drawOdds ]

\* a threshold that lets exactly 50 through
IsHomeFavoriteOrEven(p) == p.homeWinChance >= HomeWinThreshold

\* p.homeWinChance > 50 (cache hit) and (prediction.homeWinChance || 0) > 50
\* (cache miss)
IsHomeFavorite(p) == p.homeWinChance > HomeWinThreshold

filterPredictionsByHomeWinChance(predictions) ==
  SelectSeq(predictions, IsHomeFavorite)

\* a team filter that tells upper case from lower case
MatchesTeamInSameCase(p, teamFilter) ==
  \/ includes(Chars(p.homeTeam), Chars(teamFilter))
  \/ includes(Chars(p.awayTeam), Chars(teamFilter))

\* the callback of the four team filters
MatchesTeam(p, teamFilter) ==
  LET filter == toLowerCase(teamFilter)
  IN  \/ includes(toLowerCase(p.homeTeam), filter)
      \/ includes(toLowerCase(p.awayTeam), filter)

\* `teamFilter ? list.filter(...) : list`; an empty string is falsy
ApplyTeamFilter(list, teamFilter) ==
  IF teamFilter # ""
    THEN SelectSeq(list, LAMBDA p : MatchesTeam(p, teamFilter))
    ELSE list

\* filterAndTransformPredictions
filterAndTransformPredictions(predictions, teamFilter) ==
  LET filtered == ApplyTeamFilter(SelectSeq(predictions, IsHomeFavorite), teamFilter)
  IN  [i \in 1..Len(filtered) |-> DocToDto(filtered[i])]

\* what a query returns on a cache hit: getPredictionsForDate ("threshold")
\* and getAllPredictionsForDate ("all")
HitPredictions(mode, cachedPredictions, teamFilter) ==
  IF mode = "threshold"
    THEN filterAndTransformPredictions(cachedPredictions, teamFilter)
    ELSE LET filtered == ApplyTeamFilter(cachedPredictions, teamFilter)
         IN  [i \in 1..Len(filtered) |-> DocToDto(filtered[i])]

\* what a query returns on a cache miss
MissPredictions(mode, apiPredictions, teamFilter) ==
  IF mode = "threshold"
    THEN ApplyTeamFilter(
           transformApiToDto(filterPredictionsByHomeWinChance(apiPredictions)),
           teamFilter)
    ELSE ApplyTeamFilter(transformApiToDto(apiPredictions), teamFilter)

(***************************************************************************)
(* PredictionsController: the statistics of the stats endpoint.            *)
(***************************************************************************)
\* p.homeWinChance > 70
IsHighConfidence(p) == p.homeWinChance > 70

\* a medium bucket that starts above 50
IsMediumConfidenceAbove50(p) == p.homeWinChance > 50 /\ p.homeWinChance <= 70

\* p.homeWinChance >= 50 && p.homeWinChance <= 70
IsMediumConfidence(p) == p.homeWinChance >= 50 /\ p.homeWinChance <= 70

\* predictions.reduce((sum, p) => sum + p.homeWinChance, 0)
RECURSIVE SumHomeWinChance(_)
SumHomeWinChance(predictions) ==
  IF predictions = <<>> THEN 0
  ELSE SumHomeWinChance(SubSeq(predictions, 1, Len(predictions) - 1))
         + predictions[Len(predictions)].homeWinChance

\* the object a forEach fills with one counter per value of a field
Breakdown(values) ==
  [v \in {values[k] : k \in 1..Len(values)} |->
     Cardinality({k \in 1..Len(values) : values[k] = v})]

\* p.homeWinOdds && p.homeWinOdds > 0
HasValidOdds(p) == p.homeWinOdds # <<>> /\ p.homeWinOdds[1] > 0

\* Math.min(...) and Math.max(...) of a non-empty list of numbers
MinOf(numbers) ==
  CHOOSE m \in {numbers[k] : k \in 1..Len(numbers)} :
    \A k \in 1..Len(numbers) : m <= numbers[k]
MaxOf(numbers) ==
  CHOOSE m \in {numbers[k] : k \in 1..Len(numbers)} :
    \A k \in 1..Len(numbers) : m >= numbers[k]

\* calculatePredictionStats.  Of oddsRange the model keeps the smallest and
\* the largest odds; avgHomeWinOdds, a float formatted by toFixed(2), is not
\* carried.
calculatePredictionStats(predictions) ==
  LET totalMatches == Len(predictions)
      withCountry == SelectSeq(predictions, LAMBDA p : p.country # "")
      validOdds == SelectSeq(predictions, HasValidOdds)
      odds == [k \in 1..Len(validOdds) |-> validOdds[k].homeWinOdds[1]]
  IN  [ totalMatches |-> totalMatches,
        highConfidenceMatches |-> Len(SelectSeq(predictions, IsHighConfidence)),
        mediumConfidenceMatches |-> Len(SelectSeq(predictions, IsMediumConfidence)),
        competitionBreakdown |->
          Breakdown([k \in 1..totalMatches |-> predictions[k].competition]),
        countryBreakdown |->
          Breakdown([k \in 1..Len(withCountry) |-> withCountry[k].country]),
        averageHomeWinChance |->
          IF totalMatches > 0
            THEN RoundDiv(SumHomeWinChance(predictions), totalMatches)
            ELSE 0,
        minHomeWinOdds |-> IF Len(validOdds) > 0 THEN MinOf(odds) ELSE 0,
        maxHomeWinOdds |-> IF Len(validOdds) > 0 THEN MaxOf(odds) ELSE 0 ]

\* the records the statistics are computed on: what getAllPredictionsForDate
\* returns for the sample set and for matches of the provider at 70, 71, 50,
\* 51 and 49 percent, and one match rated by confidence alone (60 percent,
\* no home odds)
MatchByConfidence(day) ==
  [ RawMatch("Ajax", "Leeds", day, TextStr, NumStr(600), NumStr(420))
      EXCEPT !.predictions_conf =
        << [HOME_WIN |-> NumStr(6000), AWAY_WIN |-> NumStr(2000), DRAW |-> NumStr(2000)] >> ]

StatsPayload(day) ==
  << RawMatch("Ajax", "Leeds", day, NumStr(143), NumStr(600), NumStr(420)),
     RawMatch("Leeds", "Ajax", day, NumStr(141), NumStr(600), NumStr(420)),
     MatchEven(day),
     RawMatch("Manchester City", "Ajax", day, NumStr(196), NumStr(350), NumStr(340)),
     RawMatch("Leeds", "Manchester City", day, NumStr(204), NumStr(350), NumStr(340)),
     MatchByConfidence(day) >>

StatsSample == transformApiToDto(getMockPredictions(FirstDate))

StatsPool ==
  LET live == transformApiToDto(transformBetminerData(StatsPayload(FirstDate)))
  IN  {StatsSample[k] : k \in 1..Len(StatsSample)} \cup {live[k] : k \in 1..Len(live)}

StatsInputs ==
  {StatsSample} \cup UNION {[1..n -> StatsPool] : n \in 0..MaxStatsLen}

(***************************************************************************)
(* The Prediction collection.                                              *)
(***************************************************************************)
\* a lookup that matches on the window alone, on the date alone, or leaves
\* out the boundary of the window
IsFreshAnyDate(doc, date, cacheThreshold) == doc.cachedAt >= cacheThreshold
IsFreshForever(doc, date, cacheThreshold) == doc.date = date
IsFreshStrictly(doc, date, cacheThreshold) ==
  doc.date = date /\ doc.cachedAt > cacheThreshold

\* find({ date, cachedAt: { $gte: cacheThreshold } })
IsFresh(doc, date, cacheThreshold) ==
  doc.date = date /\ doc.cachedAt >= cacheThreshold

Find(collection, date, cacheThreshold) ==
  SelectSeq(collection, LAMBDA doc : IsFresh(doc, date, cacheThreshold))

\* a delete that empties the collection
DeleteManyOfAnyDate(collection, date) == <<>>

\* deleteMany({ date })
DeleteMany(collection, date) ==
  SelectSeq(collection, LAMBDA doc : doc.date # date)

\* the validators of the schema: the required strings are present and the
\* three chances lie within min and max
SchemaValid(doc) ==
  /\ doc.date # "" /\ doc.homeTeam # "" /\ doc.awayTeam # ""
  /\ doc.matchTime # "" /\ doc.competition # ""
  /\ \A c \in {doc.homeWinChance, doc.awayWinChance, doc.drawChance} :
       SchemaMinChance <= c /\ c <= SchemaMaxChance

\* insertMany validates every document before it sends any
InsertAccepts(docs) == \A i \in 1..Len(docs) : SchemaValid(docs[i])

InsertMany(collection, docs) == collection \o docs

(***************************************************************************)
(* State.                                                                  *)
(***************************************************************************)
VARIABLES
  mockMode,  \* FootballApiService.mockMode: no RAPIDAPI_KEY was configured
  utcOffset, \* the offset of the server's time zone from UTC, in minutes
  now,       \* the clock, Date.now()
  ticks,     \* how often the clock has advanced between two steps
  faults,    \* how many store operations have failed from outside
  store,     \* the Prediction collection, in insertion order
  q,         \* per query: where it stands and its locals
  call,      \* a call of FootballApiService.getPredictions looked at alone
  stats      \* a run of the statistics of the stats endpoint looked at alone

vars == <<mockMode, utcOffset, now, ticks, faults, store, q, call, stats>>

\* no call of getPredictions has been made
NoCall ==
  [ pc |-> "idle", date |-> "", response |-> Response("none", <<>>),
    result |-> <<>> ]

\* the statistics have not been asked for
NoStats == [pc |-> "idle", predictions |-> <<>>, result |-> <<>>]

\* a query that has not started.  doneBefore is not a local of the program:
\* it holds the queries that had returned when this one started.
Idle ==
  [ pc |-> "idle", mode |-> "threshold", date |-> "",
    teamFilter |-> NoFilter, startedAt |-> 0, cacheThreshold |-> 0,
    doneBefore |-> {},
    cachedPredictions |-> <<>>, fetched |-> FALSE,
    apiPredictions |-> <<>>, predictionDocs |-> <<>>,
    deleted |-> FALSE, inserted |-> FALSE, cacheError |-> FALSE,
    cached |-> FALSE, outcome |-> "none", error |-> NoError ]

Init ==
  /\ mockMode \in BOOLEAN
  /\ utcOffset \in UtcOffsets
  /\ now = 0
  /\ ticks = 0
  /\ faults = 0
  /\ store = <<>>
  /\ q = [i \in Queries |-> Idle]
  /\ call = NoCall
  /\ stats = NoStats

(***************************************************************************)
(* Steps of one query.  An await of the code ends a step: the store and    *)
(* the upstream act between the steps of a query, and so do other queries. *)
(***************************************************************************)
\* the predictions of the response body of a query that returned: the hit
\* paths build them from cachedPredictions, the miss paths from
\* apiPredictions; neither local changes once the query has returned
Returned(rec) ==
  IF rec.cached
    THEN HitPredictions(rec.mode, rec.cachedPredictions, rec.teamFilter)
    ELSE MissPredictions(rec.mode, rec.apiPredictions, rec.teamFilter)

\* the query returns { predictions, cached: false } after the cache step
ReturnMiss(rec) ==
  [rec EXCEPT !.pc = "done",
              !.cached = FALSE,
              !.outcome = "ok"]

\* isValidDateFormat on the server
isValidDateFormat(date) == IsValidDateIn(date, utcOffset)

\* the handler ends by throwing: the caller gets the error response
Throws(rec, error) ==
  [rec EXCEPT !.pc = "done", !.outcome = "error",
              !.error = ControllerCatch(rec.mode, error)]

\* a request arrives: the controller checks the date parameter and throws,
\* or calls the service, which computes cacheThreshold and issues the find
Start(i) ==
  /\ q[i].pc = "idle"
  /\ \A j \in Queries : j < i => q[j].pc # "idle"
  /\ \E date \in QueryDates(i), mode \in Modes, teamFilter \in TeamFilters :
       LET request == [Idle EXCEPT !.mode = mode, !.date = date,
                                   !.teamFilter = teamFilter, !.startedAt = now,
                                   !.doneBefore = {j \in Queries : q[j].pc = "done"}]
       IN  q' = [q EXCEPT ![i] =
                   IF date = ""
                     THEN Throws(request, HttpException("Date parameter is required", 400))
                   ELSE IF ~isValidDateFormat(date)
                     THEN Throws(request,
                            HttpException("Invalid date format. Please use YYYY-MM-DD format.", 400))
                   ELSE [request EXCEPT !.pc = "find",
                                        !.cacheThreshold = now - CacheTtlMs]]
  /\ UNCHANGED <<mockMode, utcOffset, now, ticks, faults, store, call, stats>>

\* the find resolves: a hit returns at once, a miss goes on to the upstream
FindReturns(i) ==
  /\ q[i].pc = "find"
  /\ LET cachedPredictions == Find(store, q[i].date, q[i].cacheThreshold)
     IN  q' = [q EXCEPT ![i] =
                 IF Len(cachedPredictions) > 0
                   THEN [@ EXCEPT !.pc = "done",
                                  !.cachedPredictions = cachedPredictions,
                                  !.cached = TRUE,
                                  !.outcome = "ok"]
                   ELSE [@ EXCEPT !.pc = "fetch"]]
  /\ UNCHANGED <<mockMode, utcOffset, now, ticks, faults, store, call, stats>>

\* the find rejects: the service does not catch it, the controller answers
\* with the internal error
FindThrows(i) ==
  /\ q[i].pc = "find"
  /\ faults < MaxFaults
  /\ faults' = faults + 1
  /\ q' = [q EXCEPT ![i] = Throws(q[i], OtherError("find failed"))]
  /\ UNCHANGED <<mockMode, utcOffset, now, ticks, store, call, stats>>

\* what footballApiService.getPredictions may resolve to
getPredictions(date) ==
  IF mockMode THEN {getMockPredictions(date)}
  ELSE {getBetminerPredictions(response, date) : response \in Responses(date)}

\* a fetch after which cacheApiPredictions runs whatever the list holds
FetchedAlwaysCaches(rec, apiPredictions) ==
  [rec EXCEPT !.fetched = TRUE, !.apiPredictions = apiPredictions, !.pc = "delete"]

\* getPredictions resolves; a non-empty result starts cacheApiPredictions
\* (the deleteMany is issued), an empty one returns
Fetched(rec, apiPredictions) ==
  LET got == [rec EXCEPT !.fetched = TRUE, !.apiPredictions = apiPredictions]
  IN  IF Len(apiPredictions) > 0 THEN [got EXCEPT !.pc = "delete"]
      ELSE ReturnMiss(got)

Fetch(i) ==
  /\ q[i].pc = "fetch"
  /\ \E apiPredictions \in getPredictions(q[i].date) :
       q' = [q EXCEPT ![i] = Fetched(@, apiPredictions)]
  /\ UNCHANGED <<mockMode, utcOffset, now, ticks, faults, store, call, stats>>

\* how many documents of n the map builds before the clock moves on
ClockSplits(n) == IF n > 1 THEN {1, n} ELSE {n}

\* the deleteMany resolves; the documents are built and the insertMany is
\* issued
DeleteReturns(i) ==
  /\ q[i].pc = "delete"
  /\ store' = DeleteMany(store, q[i].date)
  /\ \E before \in ClockSplits(Len(q[i].apiPredictions)) :
       /\ q' = [q EXCEPT ![i] =
                  [@ EXCEPT !.pc = "insert", !.deleted = TRUE,
                            !.predictionDocs =
                               BuildDocs(q[i].apiPredictions, q[i].date, now, before, i)]]
       /\ now' = IF before < Len(q[i].apiPredictions) THEN now + 1 ELSE now
  /\ UNCHANGED <<mockMode, utcOffset, ticks, faults, call, stats>>

\* a failed deleteMany after which the query fetches again
DeleteThrowsRefetches(i) ==
  /\ q[i].pc = "delete"
  /\ faults < MaxFaults
  /\ faults' = faults + 1
  /\ q' = [q EXCEPT ![i] = [@ EXCEPT !.pc = "fetch", !.cacheError = TRUE]]
  /\ UNCHANGED <<mockMode, utcOffset, now, ticks, store, call, stats>>

\* the deleteMany rejects: the catch block logs, the query goes on
DeleteThrows(i) ==
  /\ q[i].pc = "delete"
  /\ faults < MaxFaults
  /\ faults' = faults + 1
  /\ q' = [q EXCEPT ![i] = ReturnMiss([@ EXCEPT !.cacheError = TRUE])]
  /\ UNCHANGED <<mockMode, utcOffset, now, ticks, store, call, stats>>

\* the insertMany resolves
InsertReturns(i) ==
  /\ q[i].pc = "insert"
  /\ InsertAccepts(q[i].predictionDocs)
  /\ store' = InsertMany(store, q[i].predictionDocs)
  /\ q' = [q EXCEPT ![i] = ReturnMiss([@ EXCEPT !.inserted = TRUE])]
  /\ UNCHANGED <<mockMode, utcOffset, now, ticks, faults, call, stats>>

\* the insertMany rejects with a validation error: nothing is written
InsertRejects(i) ==
  /\ q[i].pc = "insert"
  /\ ~InsertAccepts(q[i].predictionDocs)
  /\ q' = [q EXCEPT ![i] = ReturnMiss([@ EXCEPT !.cacheError = TRUE])]
  /\ UNCHANGED <<mockMode, utcOffset, now, ticks, faults, store, call, stats>>

\* a failure of the insertMany that escapes cacheApiPredictions and ends the
\* query with the internal error
InsertThrowsEscapes(i) ==
  /\ q[i].pc = "insert"
  /\ faults < MaxFaults
  /\ faults' = faults + 1
  /\ q' = [q EXCEPT ![i] = [@ EXCEPT !.pc = "done", !.cacheError = TRUE,
                                     !.outcome = "error"]]
  /\ UNCHANGED <<mockMode, utcOffset, now, ticks, store, call, stats>>

\* an insertMany that fails after it has written the documents
InsertThrowsAfterWriting(i) ==
  /\ q[i].pc = "insert"
  /\ faults < MaxFaults
  /\ faults' = faults + 1
  /\ store' = InsertMany(store, q[i].predictionDocs)
  /\ q' = [q EXCEPT ![i] = ReturnMiss([@ EXCEPT !.cacheError = TRUE])]
  /\ UNCHANGED <<mockMode, utcOffset, now, ticks, call, stats>>

\* the insertMany rejects because the store fails: nothing is written
InsertThrows(i) ==
  /\ q[i].pc = "insert"
  /\ faults < MaxFaults
  /\ faults' = faults + 1
  /\ q' = [q EXCEPT ![i] = ReturnMiss([@ EXCEPT !.cacheError = TRUE])]
  /\ UNCHANGED <<mockMode, utcOffset, now, ticks, store, call, stats>>

\* time passes
Tick ==
  /\ ticks < MaxTicks
  /\ \E d \in TickSteps : now' = now + d
  /\ ticks' = ticks + 1
  /\ UNCHANGED <<mockMode, utcOffset, faults, store, q, call, stats>>

Next ==
  \/ \E i \in Queries : Start(i)
  \/ \E i \in Queries : FindReturns(i)
  \/ \E i \in Queries : FindThrows(i)
  \/ \E i \in Queries : Fetch(i)
  \/ \E i \in Queries : DeleteReturns(i)
  \/ \E i \in Queries : DeleteThrows(i)
  \/ \E i \in Queries : InsertReturns(i)
  \/ \E i \in Queries : InsertRejects(i)
  \/ \E i \in Queries : InsertThrows(i)
  \/ Tick

Spec == Init /\ [][Next]_vars

\* a pending promise of query i settles: the find, the upstream call, the
\* deleteMany or the insertMany resolves or rejects
Settles(i) ==
  \/ FindReturns(i) \/ FindThrows(i)
  \/ Fetch(i)
  \/ DeleteReturns(i) \/ DeleteThrows(i)
  \/ InsertReturns(i) \/ InsertRejects(i) \/ InsertThrows(i)

\* the steps of the queries alone, the clock of Tick standing still
NextQueries ==
  \/ \E i \in Queries : Start(i)
  \/ \E i \in Queries : FindReturns(i)
  \/ \E i \in Queries : FindThrows(i)
  \/ \E i \in Queries : Fetch(i)
  \/ \E i \in Queries : DeleteReturns(i)
  \/ \E i \in Queries : DeleteThrows(i)
  \/ \E i \in Queries : InsertReturns(i)
  \/ \E i \in Queries : InsertRejects(i)
  \/ \E i \in Queries : InsertThrows(i)

\* the store answers or fails every operation, and the upstream call, bound
\* by its timeout, returns: no promise of a query stays pending for ever
SpecFair ==
  Init /\ [][NextQueries]_vars /\ \A i \in Queries : WF_vars(Settles(i))

(***************************************************************************)
(* FootballApiService.getPredictions on its own: one call, from any        *)
(* response of the provider.                                               *)
(***************************************************************************)
\* mock mode: the sample set is returned at once
CallMock ==
  /\ mockMode
  /\ call.pc = "idle"
  /\ \E date \in Dates :
       call' = [NoCall EXCEPT !.pc = "returned", !.date = date,
                              !.result = getMockPredictions(date)]
  /\ UNCHANGED <<mockMode, utcOffset, now, ticks, faults, store, q, stats>>

\* live mode: getBetminerPredictions issues the HTTP request
CallLive ==
  /\ ~mockMode
  /\ call.pc = "idle"
  /\ \E date \in Dates : call' = [NoCall EXCEPT !.pc = "request", !.date = date]
  /\ UNCHANGED <<mockMode, utcOffset, now, ticks, faults, store, q, stats>>

\* the request settles and getBetminerPredictions returns
RequestSettles ==
  /\ call.pc = "request"
  /\ \E response \in UpstreamResponses(call.date) :
       call' = [call EXCEPT !.pc = "returned", !.response = response,
                            !.result = getBetminerPredictions(response, call.date)]
  /\ UNCHANGED <<mockMode, utcOffset, now, ticks, faults, store, q, stats>>

NextUpstream == CallMock \/ CallLive \/ RequestSettles

SpecUpstream == Init /\ [][NextUpstream]_vars

(***************************************************************************)
(* The statistics of getPredictionStats on their own: one run, on any list *)
(* of records getAllPredictionsForDate may have returned.                  *)
(***************************************************************************)
\* getAllPredictionsForDate has resolved: the statistics are computed from
\* its predictions and returned
StatsReturn ==
  /\ stats.pc = "idle"
  /\ \E predictions \in StatsInputs :
       stats' = [ pc |-> "returned", predictions |-> predictions,
                  result |-> <<calculatePredictionStats(predictions)>> ]
  /\ UNCHANGED <<mockMode, utcOffset, now, ticks, faults, store, q, call>>

NextStats == StatsReturn

SpecStats == Init /\ [][NextStats]_vars

(***************************************************************************)
(* Properties.                                                             *)
(***************************************************************************)
\* the query has returned a response body (not the internal error)
Answered(i) == q[i].pc = "done" /\ q[i].outcome = "ok"

\* the step in which the cache lookup of query i resolves
LookupResolves(i) ==
  q[i].pc = "find" /\ q'[i].pc \in {"done", "fetch"} /\ q'[i].outcome # "error"

\* the age of a stored document on the clock reading of query i
AgeFor(i, doc) == q[i].startedAt - doc.cachedAt

\* C1: in threshold mode every returned record has homeWinChance strictly
\* greater than 50, on the cache-hit path and on the cache-miss path; a
\* record with exactly 50 is not returned.
C1_ThresholdIsStrict ==
  \A i \in Queries :
    Answered(i) /\ q[i].mode = "threshold" =>
      \A k \in 1..Len(Returned(q[i])) : Returned(q[i])[k].homeWinChance > 50

\* a hit and a miss in threshold mode that both had a record with exactly
\* 50 to choose from and both returned something
C1_EvenRecordOnBothPaths ==
  \E i, j \in Queries :
    /\ Answered(i) /\ q[i].mode = "threshold" /\ ~q[i].cached
    /\ \E k \in 1..Len(q[i].apiPredictions) : q[i].apiPredictions[k].homeWinChance = 50
    /\ Len(Returned(q[i])) > 0
    /\ Answered(j) /\ q[j].mode = "threshold" /\ q[j].cached
    /\ \E k \in 1..Len(q[j].cachedPredictions) : q[j].cachedPredictions[k].homeWinChance = 50
    /\ Len(Returned(q[j])) > 0

\* C2: a query returns cached=true exactly when, as its lookup runs, the
\* store holds a record of the requested date whose cachedAt is at most two
\* hours before the clock reading of the query; such a hit returns in that
\* same step, without a call of the upstream and with the store unchanged,
\* and a query that went on to the upstream never returns cached=true.
C2_HitIffFreshRecord ==
  [][\A i \in Queries :
       /\ LookupResolves(i) =>
            LET fresh == \E k \in 1..Len(store) :
                           /\ store[k].date = q[i].date
                           /\ AgeFor(i, store[k]) <= 2 * 60 * OneMinuteMs
            IN  /\ fresh <=> (q'[i].pc = "done" /\ q'[i].cached)
                /\ ~fresh => q'[i].pc = "fetch" /\ ~q'[i].cached
                /\ fresh => store' = store /\ ~q'[i].fetched /\ ~q'[i].deleted
                                            /\ ~q'[i].inserted
       /\ q[i].pc \in {"fetch", "delete", "insert"} => ~q'[i].cached
       /\ q[i].pc = "done" => q'[i] = q[i]
  ]_vars

\* a query answered from the cache while the store holds records
C2_HitHappened ==
  \E i \in Queries :
    Answered(i) /\ q[i].cached /\ ~q[i].fetched /\ Len(store) > 0

\* C3: the cache lookup returns exactly the stored records whose date is the
\* requested one and whose cachedAt is at most two hours before the clock
\* reading of the query, in the order of the store: a record 119 minutes
\* old is in, one 121 minutes old is out, one of another date is out.
C3_LookupIsDateAndWindow ==
  [][\A i \in Queries :
       LookupResolves(i) =>
         /\ q'[i].cachedPredictions =
              SelectSeq(store, LAMBDA doc : /\ doc.date = q[i].date
                                            /\ AgeFor(i, doc) <= 120 * OneMinuteMs)
         /\ \A k \in 1..Len(store) :
              LET found == \E n \in 1..Len(q'[i].cachedPredictions) :
                          q'[i].cachedPredictions[n] = store[k]
              IN  /\ store[k].date # q[i].date => ~found
                  /\ store[k].date = q[i].date /\ AgeFor(i, store[k]) = 119 * OneMinuteMs => found
                  /\ store[k].date = q[i].date /\ AgeFor(i, store[k]) = 121 * OneMinuteMs => ~found
  ]_vars

\* a lookup that returned a record exactly 119 minutes old
C3_Found119MinutesOld ==
  \E i \in Queries :
    /\ Answered(i) /\ q[i].cached
    /\ \E k \in 1..Len(q[i].cachedPredictions) :
         AgeFor(i, q[i].cachedPredictions[k]) = 119 * OneMinuteMs

\* the stored records of a date, in the order of the store
StoredFor(date) == SelectSeq(store, LAMBDA doc : doc.date = date)

\* query j is a repetition of query i: it starts after i has returned, with
\* the same date, team filter and mode
Repeats(i, j) ==
  /\ i # j
  /\ q[j].pc # "idle" /\ i \in q[j].doneBefore
  /\ q[j].date = q[i].date
  /\ q[j].teamFilter = q[i].teamFilter
  /\ q[j].mode = q[i].mode

\* C4: after a miss whose fetch was non-empty, the same query repeated
\* within two hours returns cached=true and the records the first query
\* returned, field by field.  Stated for behaviours in which no store
\* operation failed from outside.
C4_RepeatIsCachedAndIdentical ==
  \A i, j \in Queries :
    /\ Answered(i) /\ ~q[i].cached /\ Len(q[i].apiPredictions) > 0
    /\ Repeats(i, j) /\ Answered(j)
    /\ q[j].startedAt - q[i].startedAt <= 120 * OneMinuteMs
    /\ faults = 0
    => q[j].cached /\ Returned(q[j]) = Returned(q[i])

\* C5: when every record stored for the date is more than two hours old at
\* the lookup of a query, the lookup finds nothing and the query goes on to
\* the upstream; a query that went on to the upstream calls it, and returns
\* cached=false with nothing taken from the store.
C5_ExpiredMeansMiss ==
  [][\A i \in Queries :
       /\ ( /\ LookupResolves(i)
            /\ \A k \in 1..Len(store) :
                 store[k].date = q[i].date => AgeFor(i, store[k]) > 120 * OneMinuteMs )
            => /\ q'[i].pc = "fetch"
               /\ ~q'[i].cached
               /\ q'[i].cachedPredictions = <<>>
       /\ q[i].pc = "fetch" /\ q'[i].pc # "fetch" => q'[i].fetched
       /\ q[i].pc \in {"fetch", "delete", "insert"} /\ q'[i].pc = "done" =>
            /\ q'[i].outcome = "ok"
            /\ q'[i].fetched
            /\ ~q'[i].cached
            /\ q'[i].cachedPredictions = <<>>
  ]_vars

\* a query that returned cached=false after a fetch although the store held
\* records of its date, written by an earlier query, all of them more than
\* two hours old when it started
C5_ExpiredThenMissed ==
  \E i, j \in Queries :
    /\ Repeats(i, j) /\ q[i].inserted
    /\ \A k \in 1..Len(q[i].predictionDocs) :
         AgeFor(j, q[i].predictionDocs[k]) > 120 * OneMinuteMs
    /\ Answered(j) /\ ~q[j].cached /\ q[j].fetched
    /\ Len(Returned(q[j])) > 0

\* C6: all records stored for one date were written by one refresh, and so
\* were all records one lookup returned.
C6_OneRefreshPerDate ==
  /\ \A k, l \in 1..Len(store) :
       store[k].date = store[l].date => store[k].gen = store[l].gen
  /\ \A i \in Queries : \A k, l \in 1..Len(q[i].cachedPredictions) :
       q[i].cachedPredictions[k].gen = q[i].cachedPredictions[l].gen

\* query i ran cacheApiPredictions: its fetch was not empty
Refreshed(i) == q[i].pc = "done" /\ q[i].fetched /\ Len(q[i].apiPredictions) > 0

\* C7: two refreshes of a date with the same record list, the second after
\* the first, leave exactly as many records of that date as the list has,
\* no match twice.  Stated for behaviours in which no store operation
\* failed from outside.
C7_TwiceLeavesExactlyR ==
  \A i, j \in Queries :
    /\ Refreshed(i) /\ Refreshed(j)
    /\ i \in q[j].doneBefore /\ q[j].date = q[i].date
    /\ q[j].apiPredictions = q[i].apiPredictions
    /\ faults = 0
    => LET docs == StoredFor(q[j].date)
       IN  /\ Len(docs) = Len(q[j].apiPredictions)
           /\ \A k, l \in 1..Len(docs) :
                docs[k].homeTeam = docs[l].homeTeam /\ docs[k].awayTeam = docs[l].awayTeam
                  => k = l

\* C8: when two queries for one date overlap and both write the cache, then
\* once both have returned the store holds for that date exactly the
\* documents of the one that wrote last.
C8_LastWriterWins ==
  \A i, j \in Queries :
    /\ i # j /\ q[i].pc = "done" /\ q[j].pc = "done"
    /\ q[i].date = q[j].date
    /\ i \notin q[j].doneBefore /\ j \notin q[i].doneBefore
    /\ q[i].inserted /\ q[j].inserted
    => LET docs == StoredFor(q[i].date)
       IN  docs = q[docs[Len(docs)].gen].predictionDocs

\* the records a miss is to return: the fetched ones, above 50 in threshold
\* mode, naming the team filter if there is one
FetchedAndFiltered(i) ==
  LET kept == SelectSeq(q[i].apiPredictions,
                        LAMBDA p : /\ q[i].mode = "threshold" => p.homeWinChance > 50
                                   /\ q[i].teamFilter # "" => MatchesTeam(p, q[i].teamFilter))
  IN  [k \in 1..Len(kept) |-> ApiToDto(kept[k])]

\* C9: when the delete or the insert of cacheApiPredictions fails, the
\* query still returns a response: the fetched records, filtered as usual,
\* with cached=false.
C9_CacheFailureIsSwallowed ==
  \A i \in Queries :
    q[i].cacheError =>
      /\ Answered(i)
      /\ ~q[i].cached
      /\ q[i].fetched
      /\ Returned(q[i]) = FetchedAndFiltered(i)

\* an insert that failed from outside, after the delete, in a threshold
\* query that returned some of the fetched records and withheld others
C9_InsertFailedYetAnswered ==
  \E i \in Queries :
    /\ q[i].cacheError /\ q[i].deleted /\ InsertAccepts(q[i].predictionDocs)
    /\ Answered(i)
    /\ 0 < Len(Returned(q[i])) /\ Len(Returned(q[i])) < Len(q[i].apiPredictions)

\* C10: a call of getPredictions in live mode whose request errors, times
\* out, or answers without an array returns the sample set that mock mode
\* returns for the requested date: five records carrying that date.  The
\* call has no other way to end than returning a list.
C10_FailureGivesSampleSet ==
  /\ call.pc = "returned" /\ ~mockMode
       /\ call.response.kind \in {"error", "timeout", "nodata", "notarray"}
     => /\ call.result = getMockPredictions(call.date)
        /\ Len(call.result) = 5
        /\ \A k \in 1..Len(call.result) : call.result[k].date = call.date
  /\ call.pc = "returned" /\ mockMode
     => call.result = getMockPredictions(call.date) /\ Len(call.result) = 5

\* a live call whose request timed out and that returned five records
C10_TimedOutCallReturned ==
  /\ ~mockMode /\ call.pc = "returned"
  /\ call.response.kind = "timeout"
  /\ Len(call.result) = 5

\* C11: when the fetch of a miss returns an empty list, the query returns in
\* that step with an empty record list and cached=false, the store is left
\* as it was, and the query has issued neither a delete nor an insert.
C11_EmptyFetchTouchesNothing ==
  [][\A i \in Queries :
       q[i].pc = "fetch" /\ q'[i].fetched /\ Len(q'[i].apiPredictions) = 0 =>
         /\ q'[i].pc = "done" /\ q'[i].outcome = "ok"
         /\ ~q'[i].cached
         /\ Returned(q'[i]) = <<>>
         /\ store' = store
         /\ ~q'[i].deleted /\ ~q'[i].inserted /\ ~q'[i].cacheError
         /\ q'[i].predictionDocs = <<>>
  ]_vars

\* a query answered after an empty fetch while the store still holds the
\* expired records of its date
C11_EmptyFetchOverOldRecords ==
  \E i \in Queries :
    /\ Answered(i) /\ q[i].fetched /\ Len(q[i].apiPredictions) = 0
    /\ Len(StoredFor(q[i].date)) > 0

\* C12: every stored record, and every record handed to the cache write,
\* has a non-empty homeTeam, a non-empty awayTeam and homeWinChance > 0: the
\* matches of a payload that fail one of these are not in the fetched list.
C12_StoredRecordsAreNamedAndPositive ==
  LET Good(p) == p.homeTeam # "" /\ p.awayTeam # "" /\ p.homeWinChance > 0
  IN  /\ \A k \in 1..Len(store) : Good(store[k])
      /\ \A i \in Queries :
           /\ \A k \in 1..Len(q[i].apiPredictions) : Good(q[i].apiPredictions[k])
           /\ \A k \in 1..Len(q[i].predictionDocs) : Good(q[i].predictionDocs[k])

\* the store holds the records of a payload of five matches, one without a
\* home team and one with 0 percent, and holds only the other three
C12_MixedPayloadStored ==
  \E i \in Queries :
    /\ ~mockMode /\ q[i].inserted
    /\ q[i].apiPredictions = transformBetminerData(PayloadMixed(q[i].date))
    /\ Len(q[i].apiPredictions) = 3
    /\ StoredFor(q[i].date) = q[i].predictionDocs

\* the request of query i has not led to any work on the store or upstream
Untouched(rec) ==
  /\ rec.cachedPredictions = <<>> /\ rec.apiPredictions = <<>>
  /\ rec.predictionDocs = <<>>
  /\ ~rec.fetched /\ ~rec.deleted /\ ~rec.inserted /\ ~rec.cacheError

\* C13: a request without a date, or with a date that is not a calendar
\* date written YYYY-MM-DD, is answered in its first step with a 400
\* HttpException; the store stays as it is and no lookup, fetch, delete or
\* insert is made for it.
C13_BadDateIsTurnedAway ==
  [][\A i \in Queries :
       q[i].pc = "idle" /\ q'[i].pc # "idle" /\ q'[i].date \in BadDates =>
         /\ q'[i].pc = "done" /\ q'[i].outcome = "error"
         /\ q'[i].error.http /\ q'[i].error.status = 400
         /\ q'[i].error.message =
              (IF q'[i].date = "" THEN "Date parameter is required"
               ELSE "Invalid date format. Please use YYYY-MM-DD format.")
         /\ store' = store
         /\ Untouched(q'[i])
  ]_vars

\* the request for 2025-13-40 was turned away while the store held records
C13_NoSuchMonthTurnedAway ==
  \E i \in Queries :
    /\ q[i].pc = "done" /\ q[i].date = "2025-13-40"
    /\ q[i].error.status = 400
    /\ Len(store) > 0

\* C14: a request that fails after its date was accepted fails in the cache
\* lookup and is answered with the one 500 HttpException of its endpoint,
\* with the store unchanged and without a fetch, a delete or an insert; a
\* request that fails on its date is answered with the 400 HttpException
\* the check threw; no later step of a request fails.
C14_OneInternalError ==
  [][\A i \in Queries :
       /\ q[i].pc = "find" /\ q'[i].outcome = "error" =>
            /\ q'[i].error =
                 [http |-> TRUE, status |-> 500,
                  message |-> IF q[i].mode = "threshold"
                                THEN "Failed to retrieve predictions"
                                ELSE "Failed to retrieve all predictions"]
            /\ store' = store
            /\ Untouched(q'[i])
       /\ q[i].pc = "idle" /\ q'[i].outcome = "error" =>
            /\ q'[i].error.http /\ q'[i].error.status = 400
            /\ q'[i].error.message \in
                 {"Date parameter is required",
                  "Invalid date format. Please use YYYY-MM-DD format."}
       /\ q[i].pc \in {"fetch", "delete", "insert"} => q'[i].outcome # "error"
  ]_vars

\* one request was answered with the internal error after a failed lookup,
\* another with the validation error
C14_BothErrorsAnswered ==
  \E i, j \in Queries :
    /\ q[i].pc = "done" /\ q[i].error.status = 500 /\ q[i].date \in Dates
    /\ q[j].pc = "done" /\ q[j].error.status = 400

\* name has the characters of part, in their order and side by side,
\* somewhere in it, upper and lower case taken as the same
ContainsIgnoringCase(name, part) ==
  LET whole == Chars(name)
      piece == Chars(part)
  IN  \E start \in 0..(Len(whole) - Len(piece)) :
        \A k \in 1..Len(piece) :
          LowerChar(whole[start + k]) = LowerChar(piece[k])

\* what query i would have returned had it had no team filter
Unfiltered(i) ==
  IF q[i].cached THEN HitPredictions(q[i].mode, q[i].cachedPredictions, NoFilter)
  ELSE MissPredictions(q[i].mode, q[i].apiPredictions, NoFilter)

\* C15: a query with a team filter returns, on a hit and on a miss, exactly
\* the records of its unfiltered result whose homeTeam or awayTeam contains
\* the filter, upper and lower case taken as the same, in the same order.
C15_TeamFilterIsSubstringIgnoringCase ==
  \A i \in Queries :
    Answered(i) /\ q[i].teamFilter # "" =>
      Returned(q[i]) =
        SelectSeq(Unfiltered(i),
                  LAMBDA p : \/ ContainsIgnoringCase(p.homeTeam, q[i].teamFilter)
                             \/ ContainsIgnoringCase(p.awayTeam, q[i].teamFilter))

\* a miss and a hit in threshold mode with the filter 'CIty', each keeping a
\* record of Manchester City and withholding one that is above 50 too
C15_FilterKeptSomeOnBothPaths ==
  \E i, j \in Queries :
    /\ Answered(i) /\ ~q[i].cached /\ Answered(j) /\ q[j].cached
    /\ \A n \in {i, j} :
         /\ q[n].teamFilter = "CIty" /\ q[n].mode = "threshold"
         /\ 0 < Len(Returned(q[n])) /\ Len(Returned(q[n])) < Len(Unfiltered(n))
         /\ Returned(q[n])[1].homeTeam = "Manchester City"

\* a live call has returned the normalization of one match that came with
\* draw odds and a draw confidence of the provider
ProbeReturned ==
  /\ ~mockMode /\ call.pc = "returned"
  /\ call.response.kind = "array" /\ Len(call.response.data) = 1
  /\ call.response.data[1].predictions_conf # <<>>
  /\ Len(call.result) = 1

ProbeOdds == call.response.data[1].odds[1].draw_odds
ProbeConf == call.response.data[1].predictions_conf[1].DRAW

\* the string is a number above 0
Positive(str) == str.kind = "num" /\ str.v > 0

\* C16: every record normalization returns has homeWinChance, awayWinChance
\* and drawChance between 0 and 100.
C16_ChancesWithinRange ==
  call.pc = "returned" =>
    \A k \in 1..Len(call.result) :
      \A c \in {call.result[k].homeWinChance, call.result[k].awayWinChance,
                 call.result[k].drawChance} : 0 <= c /\ c <= 100

\* C17: for odds o above 0, calculateWinChanceFromOdds(o) is an integer no
\* further than a half from 100/o, it is not below the value for any larger
\* odds, and when it is above 0 it is the percentage of the record.
C17_ImpliedProbabilityIsRoundedAndMonotone ==
  ProbeReturned /\ Positive(ProbeOdds) =>
    LET chance == calculateWinChanceFromOdds(ProbeOdds)
        Distance(a, b) == IF a < b THEN b - a ELSE a - b
    IN  /\ chance # <<>>
        /\ 2 * Distance(chance[1] * ProbeOdds.v, 10000) <= ProbeOdds.v
        /\ \A larger \in OddsStrings :
             Positive(larger) /\ larger.v >= ProbeOdds.v =>
               calculateWinChanceFromOdds(larger)[1] <= chance[1]
        /\ chance[1] > 0 => call.result[1].drawChance = chance[1]

\* the match with draw odds 1.60 came back with a draw chance of 63
C17_SixtyTwoAndAHalf ==
  /\ ProbeReturned /\ ProbeOdds = NumStr(160)
  /\ call.result[1].drawChance = 63

\* C18: when the odds of an outcome are a number above 0, the percentage of
\* the record is the one the odds give, 0 included; the confidence is used
\* only when the odds are not such a number, and 0 only when neither the
\* odds nor the confidence gives a value.
C18_OddsComeFirst ==
  ProbeReturned =>
    LET fromOdds == calculateWinChanceFromOdds(ProbeOdds)
        fromConf == parseConfidence(ProbeConf)
    IN  call.result[1].drawChance =
          (IF Positive(ProbeOdds) THEN fromOdds[1]
           ELSE IF fromConf # <<>> THEN fromConf[1]
           ELSE 0)

\* C19: for a string that is no number or a number not above 0,
\* calculateWinChanceFromOdds and parseConfidence both return null, so a
\* record whose odds and confidence are both such strings gets 0.
C19_NothingFromUnusableStrings ==
  ProbeReturned =>
    /\ ~Positive(ProbeOdds) => calculateWinChanceFromOdds(ProbeOdds) = <<>>
    /\ ~Positive(ProbeConf) => parseConfidence(ProbeConf) = <<>>
    /\ ~Positive(ProbeOdds) /\ ~Positive(ProbeConf) => call.result[1].drawChance = 0

\* C20: in mock mode a threshold query without team filter whose lookup
\* finds the store empty goes on to the fetch, and such a query that
\* returns after a fetch returns cached=false and two records, Deportivo
\* Cali with 56 and America W with 99, both carrying the requested date;
\* Real Soacha (21), Toluca W (40) and Santa Fe (36) are not among them.
C20_MockQueryReturnsTheTwoFavorites ==
  [][\A i \in Queries :
       mockMode /\ q[i].mode = "threshold" /\ q[i].teamFilter = "" =>
         /\ LookupResolves(i) /\ store = <<>> => q'[i].pc = "fetch"
         /\ q[i].pc \in {"fetch", "delete", "insert"} /\ q'[i].pc = "done" =>
              LET predictions == Returned(q'[i])
              IN  /\ q'[i].outcome = "ok" /\ ~q'[i].cached
                  /\ Len(predictions) = 2
                  /\ predictions[1].homeTeam = "Deportivo Cali"
                  /\ predictions[1].homeWinChance = 56
                  /\ predictions[2].homeTeam = "America W"
                  /\ predictions[2].homeWinChance = 99
                  /\ \A k \in 1..2 :
                       /\ predictions[k].date = q[i].date
                       /\ predictions[k].homeTeam \notin {"Real Soacha", "Toluca W", "Santa Fe"}
  ]_vars

\* in mock mode the first query, in threshold mode and without a filter,
\* found the store empty and returned two records for 2025-08-12, and so
\* did a second one for 2025-08-13
C20_MockQueriesAnswered ==
  /\ mockMode
  /\ \A i \in {1, 2} :
       /\ Answered(i) /\ q[i].mode = "threshold" /\ q[i].teamFilter = ""
       /\ ~q[i].cached /\ Len(Returned(q[i])) = 2
  /\ q[1].date = "2025-08-12" /\ q[2].date = "2025-08-13"

\* the homeWinChance values of the records the statistics were computed on
StatsChances ==
  [k \in 1..Len(stats.predictions) |-> stats.predictions[k].homeWinChance]

\* C21: highConfidenceMatches counts exactly the records with homeWinChance
\* above 70 and mediumConfidenceMatches exactly those from 50 to 70, both
\* ends included; no record is in both, and the two counts together do not
\* exceed totalMatches, the length of the list; averageHomeWinChance is the
\* mean rounded to the nearest integer, a half going up, and 0 for the empty
\* list.  For the chances 21, 56, 99, 40, 36 the three values are 1, 1, 50.
C21_BucketsAndRoundedMean ==
  stats.pc = "returned" =>
    LET r == stats.result[1]
        n == Len(StatsChances)
        high == {k \in 1..n : StatsChances[k] > 70}
        medium == {k \in 1..n : 50 <= StatsChances[k] /\ StatsChances[k] <= 70}
        sum == SumHomeWinChance(stats.predictions)
    IN  /\ r.totalMatches = n
        /\ r.highConfidenceMatches = Cardinality(high)
        /\ r.mediumConfidenceMatches = Cardinality(medium)
        /\ high \cap medium = {}
        /\ r.highConfidenceMatches + r.mediumConfidenceMatches <= r.totalMatches
        /\ n = 0 => r.averageHomeWinChance = 0
        /\ n > 0 => /\ 2 * n * r.averageHomeWinChance <= 2 * sum + n
                    /\ 2 * sum + n < 2 * n * (r.averageHomeWinChance + 1)
        /\ StatsChances = <<21, 56, 99, 40, 36>> =>
             /\ r.highConfidenceMatches = 1
             /\ r.mediumConfidenceMatches = 1
             /\ r.averageHomeWinChance = 50

\* the statistics of the sample set have been computed
C21_SampleSetSummarized ==
  /\ stats.pc = "returned"
  /\ StatsChances = <<21, 56, 99, 40, 36>>
  /\ stats.result[1].averageHomeWinChance = 50

\* C22: all documents one call of cacheApiPredictions built and all records
\* it left in the store carry one cachedAt.
C22_OneCachedAtPerRefresh ==
  /\ \A i \in Queries : \A k, l \in 1..Len(q[i].predictionDocs) :
       q[i].predictionDocs[k].cachedAt = q[i].predictionDocs[l].cachedAt
  /\ \A k, l \in 1..Len(store) :
       store[k].gen = store[l].gen => store[k].cachedAt = store[l].cachedAt

\* C23: the records a cache hit filters are, for every refresh one of them
\* was written by, all the records that refresh wrote: a lookup never finds
\* some records of a refresh without the others.
C23_HitIsAllOrNothing ==
  \A i \in Queries :
    Answered(i) /\ q[i].cached =>
      \A k \in 1..Len(q[i].cachedPredictions) :
        LET written == q[q[i].cachedPredictions[k].gen].predictionDocs
        IN  \A n \in 1..Len(written) :
              \E l \in 1..Len(q[i].cachedPredictions) :
                q[i].cachedPredictions[l] = written[n]

\* the team and the home-win chance of every record of a list, in order
Essence(records) ==
  [k \in 1..Len(records) |->
     [homeTeam |-> records[k].homeTeam, awayTeam |-> records[k].awayTeam,
      homeWinChance |-> records[k].homeWinChance]]

\* C24: the cache write of a miss is handed every fetched record, in
\* threshold mode as in all mode, those at 50 or below included; and after
\* a miss with a non-empty fetch, a query without team filter for the same
\* date in the other mode, started after the first returned and within two
\* hours of it, returns cached=true with every fetched record (all mode) or
\* with exactly those above 50 (threshold mode).  Stated for behaviours in
\* which no store operation failed from outside.
C24_CacheHoldsTheFullSet ==
  /\ \A i \in Queries :
       q[i].deleted => Essence(q[i].predictionDocs) = Essence(q[i].apiPredictions)
  /\ \A i, j \in Queries :
       /\ Answered(i) /\ ~q[i].cached /\ Len(q[i].apiPredictions) > 0
       /\ i \in q[j].doneBefore /\ q[j].date = q[i].date
       /\ q[j].mode # q[i].mode /\ q[j].teamFilter = ""
       /\ Answered(j)
       /\ q[j].startedAt - q[i].startedAt <= 120 * OneMinuteMs
       /\ faults = 0
       => /\ q[j].cached
          /\ Essence(Returned(q[j])) =
               Essence(IF q[j].mode = "all" THEN q[i].apiPredictions
                       ELSE SelectSeq(q[i].apiPredictions,
                                      LAMBDA p : p.homeWinChance > 50))

\* the record is in the collection
StoredIn(collection, doc) == \E k \in 1..Len(collection) : collection[k] = doc

\* C25: in every step, a stored record stays in the store as it is unless
\* the step is the delete of a refresh for the date of that record; the
\* records that stay keep their order, a record that appears was built by
\* the refresh whose insert the step is, and the store changes in no step
\* other than the delete and the insert of a refresh: not in a lookup, hit
\* or miss, not in a fetch, not when a request arrives, not when time
\* passes.
C25_OnlyARefreshOfItsDateRemoves ==
  [][/\ \A k \in 1..Len(store) :
          \/ StoredIn(store', store[k])
          \/ \E i \in Queries : /\ q[i].pc = "delete" /\ q'[i].deleted
                                /\ q[i].date = store[k].date
     /\ SelectSeq(store', LAMBDA doc : StoredIn(store, doc)) =
          SelectSeq(store, LAMBDA doc : StoredIn(store', doc))
     /\ \A k \in 1..Len(store') :
          \/ StoredIn(store, store'[k])
          \/ \E i \in Queries : /\ q[i].pc = "insert" /\ q'[i].inserted
                                /\ StoredIn(q[i].predictionDocs, store'[k])
     /\ store' # store =>
          \E i \in Queries : \/ q[i].pc = "delete" /\ q'[i].deleted
                             \/ q[i].pc = "insert" /\ q'[i].inserted
  ]_vars

\* the records the first query wrote are all in the store, more than two
\* hours old, after a second query refreshed the other date
C25_StaleRecordsOutliveOtherRefresh ==
  /\ q[1].inserted /\ q[2].inserted /\ q[2].date # q[1].date
  /\ 1 \in q[2].doneBefore
  /\ StoredFor(q[1].date) = q[1].predictionDocs
  /\ \A k \in 1..Len(q[1].predictionDocs) :
       now - q[1].predictionDocs[k].cachedAt > 120 * OneMinuteMs

\* the refresh of query f deleted and then failed to insert
FailedAfterDelete(f) == q[f].pc = "done" /\ q[f].deleted /\ q[f].cacheError

\* every other query that wrote records of the date of query f had returned
\* when f started: none wrote between the delete of f and now
NoWriterSince(f) ==
  \A k \in Queries \ {f} :
    q[k].inserted /\ q[k].date = q[f].date => k \in q[f].doneBefore

\* C26: the delete of a refresh leaves no record of its date in the store;
\* when the insert then fails, the step leaves the store as it is, with
\* none of the documents of the refresh in it, and the query returns the
\* fetched records with cached=false, not an error.  As long as no other
\* query writes records of that date, the store holds none, those the
\* delete removed included, and the lookup of the next query for that date
\* finds nothing and the query goes on to fetch from the upstream.
C26_FailedInsertLeavesDateEmpty ==
  /\ [](\A f \in Queries :
          FailedAfterDelete(f) /\ NoWriterSince(f) => StoredFor(q[f].date) = <<>>)
  /\ [][\A i \in Queries :
          /\ q[i].pc = "delete" /\ q'[i].deleted =>
               SelectSeq(store', LAMBDA doc : doc.date = q[i].date) = <<>>
          /\ q[i].pc = "insert" /\ q'[i].cacheError =>
               /\ store' = store
               /\ \A k \in 1..Len(q[i].predictionDocs) :
                    ~StoredIn(store', q[i].predictionDocs[k])
               /\ q'[i].pc = "done" /\ q'[i].outcome = "ok"
               /\ ~q'[i].cached /\ ~q'[i].inserted
               /\ Returned(q'[i]) = FetchedAndFiltered(i)
          /\ ( /\ LookupResolves(i)
               /\ \E f \in q[i].doneBefore :
                    FailedAfterDelete(f) /\ NoWriterSince(f) /\ q[f].date = q[i].date )
             => q'[i].pc = "fetch" /\ ~q'[i].cached
          /\ q[i].pc = "fetch" /\ q'[i].pc # "fetch" => q'[i].fetched
     ]_vars

\* the second query found the records of the first expired, deleted them
\* and failed to insert its own: it returned its fetched records and the
\* store holds nothing for the date
C26_OldRecordsGoneAfterFailedInsert ==
  /\ q[1].inserted /\ 1 \in q[2].doneBefore /\ q[2].date = q[1].date
  /\ FailedAfterDelete(2) /\ Answered(2) /\ Len(Returned(q[2])) > 0
  /\ StoredFor(q[2].date) = <<>>

\* how far a query is: a request not yet made, the lookup, the upstream
\* call, the delete and the insert pending, the response sent
Stage(pc) ==
  CASE pc = "idle" -> 0 [] pc = "find" -> 1 [] pc = "fetch" -> 2
    [] pc = "delete" -> 3 [] pc = "insert" -> 4 [] pc = "done" -> 5

\* C27: every step of a query takes it to a later stage, so a query issues
\* at most one lookup, one upstream call, one delete and one insert, none a
\* second time, and a query that has returned does nothing more; and when
\* every pending operation completes or fails, there comes a point from
\* which every query whose date was accepted has returned, with a result or
\* with an error, and none is pending.
C27_QueryTerminatesWithoutRetry ==
  /\ [][\A i \in Queries :
          /\ q'[i] # q[i] => Stage(q'[i].pc) > Stage(q[i].pc)
          /\ q'[i].pc = "done" => q'[i].outcome \in {"ok", "error"}
          /\ q'[i].pc # "done" => q'[i].outcome = "none"
          /\ q'[i].fetched => Stage(q'[i].pc) > 2
          /\ q'[i].deleted => Stage(q'[i].pc) > 3
          /\ q'[i].inserted => Stage(q'[i].pc) > 4
     ]_vars
  /\ <>[](\A i \in Queries : q[i].pc \in {"idle", "done"})

\* both queries went through lookup, upstream call, delete and insert and
\* returned
C27_BothWentAllTheWay ==
  \A i \in Queries :
    Answered(i) /\ q[i].fetched /\ q[i].deleted /\ q[i].inserted

\* the record is the normalization of a match of the payload: it names the
\* teams of that match
FromPayload(record, data) ==
  \E n \in 1..Len(data) :
    /\ record.homeTeam = data[n].details.homeTeam
    /\ record.awayTeam = data[n].details.awayTeam

\* C28: when one match of an array payload has no odds object or no date
\* string, the live call returns the sample set of the requested date, five
\* records, and nothing else: no record it returns, and no document the
\* cache write builds from what it returns, comes from a match of that
\* payload, the matches that normalize without fault included.
C28_OneBadMatchDiscardsThePayload ==
  /\ call.pc = "returned" /\ ~mockMode /\ call.response.kind = "array"
  /\ \E n \in 1..Len(call.response.data) :
       \/ call.response.data[n].odds = <<>>
       \/ call.response.data[n].details.date = <<>>
  => /\ call.result = getMockPredictions(call.date)
     /\ Len(call.result) = 5
     /\ \A k \in 1..Len(call.result) :
          /\ ~FromPayload(call.result[k], call.response.data)
          /\ call.result[k].date = call.date
     /\ LET docs == BuildDocs(call.result, call.date, now, Len(call.result), 0)
        IN  \A k \in 1..Len(docs) : ~FromPayload(docs[k], call.response.data)

\* a live call returned for a payload of two matches, the first at 80
\* percent and without fault, the second without a date string
C28_GoodMatchLostWithTheBadOne ==
  /\ ~mockMode /\ call.pc = "returned" /\ call.response.kind = "array"
  /\ Len(call.response.data) = 2
  /\ call.response.data[1].odds # <<>> /\ call.response.data[1].details.date # <<>>
  /\ call.response.data[1].details.homeTeam = "Ajax"
  /\ call.response.data[2].details.date = <<>>
  /\ Len(call.result) = 5

=============================================================================
